---- MODULE Spec2Model ----
(***************************************************************************)
(* Model of the SPOTMP3 batch downloader: the reconciliation of a          *)
(* container's expected tracks against the numbered files on disk          *)
(* (SpotifyDownloader / SoundCloudDownloader), the orchestration of links  *)
(* and exit codes (Coordinator, main), the error-log parser               *)
(* (parse_errors), the link reader (clean_url, read_links), the container *)
(* name handed from the metadata fetch to the reconcile, and the names of  *)
(* the error-log files.                                                    *)
(*                                                                         *)
(* Text is modelled as a sequence of symbols.  A symbol is one character,  *)
(* or a fixed piece of text that holds no separator and no white space at  *)
(* its ends (a URL prefix, an error marker).                               *)
(***************************************************************************)
EXTENDS Integers, Sequences, FiniteSets, TLC

VARIABLES
    provider,     \* reconcile: the adapter whose cleanup is called
    dirExists,    \* reconcile: output_dir/<playlist_name> is a directory
    files,        \* reconcile: the entries of the playlist directory
    meta,         \* reconcile: .metadata/<playlist_name>.json
    infoFiles,    \* reconcile: contents of the *.info.json files of the directory
    descFile,     \* reconcile: <playlist_name>.description exists in the directory
    rootInfo,    \* reconcile: number of *.info.json files at the output root
    metaDir,      \* reconcile: output_dir/.metadata exists
    result,       \* reconcile: the list the last cleanup call returned
    lastLog,      \* reconcile: the outcome the last cleanup call logged
    calls,        \* reconcile: number of cleanup calls so far
    mode,         \* run: "coordinator" (Coordinator.process_all) or "legacy" (main.main)
    input,        \* run: the links read from the input file, in file order
    pidx,         \* run: index of the provider being processed
    lidx,         \* run: index of the link being processed in the provider's list
    step,         \* run: the next step of the orchestrator
    exit_code,    \* run: exit_code of process_provider / of main
    aggregate,    \* run: exit_code of process_all / the code main exits with
    playlist_name,\* run: what fetch_metadata_image returned for the current link
    downloads,    \* run: the download invocations so far, in order
    codes,        \* run: the exit codes the downloads returned, in order
    cleanups,     \* run: the links whose cleanup call returned, in order
    fetchFailed,  \* run: the links whose metadata fetch failed, in order
    parsed,       \* run: the links whose error log was parsed, in order
    status,       \* run: "running", "done", "aborted", "usage_error" or "input_error"
    abortedBy,    \* run: the step whose exception ended the run
    parser,       \* parse: "utils" (src/utils.py) or "main" (main.py) parse_errors
    errlog,       \* parse: the lines of the error-log file
    failed_songs, \* parse: the list parse_errors returned
    parse_error,  \* parse: parse_errors logged "Failed to parse errors"
    parse_done,   \* parse: parse_errors has returned
    errfile_readable, \* parse: errors_file.open succeeds
    argc,         \* run: number of command-line arguments after the program name
    input_state,  \* run: the input file is a "file", is "missing" or is "unreadable"
    trace,        \* run: the steps started and finished so far, in order
    logLeft,      \* run: the download invocations that left an error-log file
    reader,       \* links: "utils" (src/utils.py) or "main" (main.py) clean_url and reader
    infile,       \* links: the lines of the input file
    read_out,     \* links: what read_links / read_spotify_links returned
    read_done,    \* links: the reader has returned
    container_name, \* name: out['name'], the container name the provider returned
    json_path,    \* name: the metadata file fetch_metadata_image wrote, <<>> if none
    playlist_name_arg, \* name: the name fetch_metadata_image returned to the caller
    metadata_path, \* name: the metadata file _find_missing_in_playlist looked up
    name_step,    \* name: "fetch", "cleanup" or "done"
    clock,        \* files: datetime.now() in whole seconds
    errors_files  \* files: the errors_file paths of the download invocations, in order

reconcileVars ==
    <<provider, dirExists, files, meta, infoFiles, descFile, rootInfo, metaDir,
      result, lastLog, calls>>

runVars ==
    <<mode, input, pidx, lidx, step, exit_code, aggregate, playlist_name, downloads,
      codes, cleanups, fetchFailed, parsed, status, abortedBy, argc, input_state,
      trace, logLeft>>

parseVars == <<parser, errlog, failed_songs, parse_error, parse_done, errfile_readable>>

linkVars == <<reader, infile, read_out, read_done>>

nameVars == <<container_name, json_path, playlist_name_arg, metadata_path, name_step>>

fileVars == <<clock, errors_files>>

vars == <<reconcileVars, runVars, parseVars, linkVars, nameVars, fileVars>>

----------------------------------------------------------------------------
(* Bounds of the model *)

MaxN == 3
MaxFiles == 2
MaxInfo == 2
MaxCalls == 2
MaxLinks == 3
MaxChunks == 3
MaxLines == 2
MaxInLines == 2
MaxNameLen == 3
MaxClock == 3
MaxInvocations == 3

----------------------------------------------------------------------------
(* Text helpers: str.strip, int(), format *)

DigitString == <<"0", "1", "2", "3", "4", "5", "6", "7", "8", "9">>

IsDigit(c) == \E i \in 1..10 : DigitString[i] = c

DigitVal(c) == (CHOOSE i \in 1..10 : DigitString[i] = c) - 1

IsSpace(c) == c = " "

RECURSIVE LStrip(_)
LStrip(s) == IF s # <<>> /\ IsSpace(Head(s)) THEN LStrip(Tail(s)) ELSE s

RECURSIVE RStrip(_)
RStrip(s) ==
    IF s # <<>> /\ IsSpace(s[Len(s)]) THEN RStrip(SubSeq(s, 1, Len(s) - 1)) ELSE s

Strip(s) == RStrip(LStrip(s))

RECURSIVE DigitRun(_)
DigitRun(s) ==
    IF s # <<>> /\ IsDigit(Head(s)) THEN <<Head(s)>> \o DigitRun(Tail(s)) ELSE <<>>

RECURSIVE ToInt(_)
ToInt(ds) ==
    IF ds = <<>> THEN 0
    ELSE ToInt(SubSeq(ds, 1, Len(ds) - 1)) * 10 + DigitVal(ds[Len(ds)])

RECURSIVE Render(_)
Render(n) ==
    IF n < 10 THEN <<DigitString[n + 1]>>
    ELSE Render(n \div 10) \o <<DigitString[(n % 10) + 1]>>

Zeros(k) == [i \in 1..k |-> "0"]

ZeroPad(n, width) ==
    LET r == Render(n)
    IN  IF Len(r) >= width THEN r ELSE Zeros(width - Len(r)) \o r

Max(a, b) == IF a >= b THEN a ELSE b

RECURSIVE SetToSeq(_)
SetToSeq(S) ==
    IF S = {} THEN <<>>
    ELSE LET x == CHOOSE y \in S : TRUE IN <<x>> \o SetToSeq(S \ {x})

RECURSIVE Insert(_, _)
Insert(n, s) ==
    IF s = <<>> THEN <<n>>
    ELSE IF n <= Head(s) THEN <<n>> \o s
    ELSE <<Head(s)>> \o Insert(n, Tail(s))

RECURSIVE Sort(_)
Sort(s) == IF s = <<>> THEN <<>> ELSE Insert(Head(s), Sort(Tail(s)))

InSeq(x, s) == \E i \in 1..Len(s) : s[i] = x

RECURSIVE MaxLen(_)
MaxLen(ss) == IF ss = <<>> THEN 0 ELSE Max(Len(Head(ss)), MaxLen(Tail(ss)))

Range(a, b) == [i \in 1..(IF b >= a THEN b - a + 1 ELSE 0) |-> a + i - 1]

----------------------------------------------------------------------------
(* Data model: src/models.py *)

PlaylistName == "MyMix"

Playlist(playlist_url, name, length) ==
    [playlist_url |-> playlist_url, name |-> name, length |-> length, songs |-> <<>>]

Song(song_url, playlist_url, error, title, artists, playlist, list_position) ==
    [title |-> title, artists |-> artists, song_url |-> song_url,
     playlist_url |-> playlist_url, error |-> error, playlist |-> playlist,
     list_position |-> list_position]

----------------------------------------------------------------------------
(* Provider metadata and the playlist directory *)

\* The track the provider lists at position i: its name, artists and URL.
\* flavour "padded": the provider's title carries surrounding white space.
TrackAt(i, flavour) ==
    [name     |-> IF flavour = "padded" THEN <<" ", "t">> \o Render(i) \o <<" ">>
                  ELSE <<"t">> \o Render(i),
     artists  |-> IF i % 2 = 0 THEN << <<"a">> \o Render(i), <<"b">> >>
                  ELSE << <<"a">> \o Render(i) >>,
     spotify  |-> <<"https://open.spotify.com/track/">> \o Render(i)]

\* A JSON object without name / artists / external_urls, read through .get defaults.
Blank == [name |-> <<>>, artists |-> <<>>, spotify |-> <<>>]

\* One entry of tracks.items: a playlist entry wraps the track under "track"
\* (null for a track the provider no longer serves), an album entry is the track.
ItemAt(i, type, flavour) ==
    IF type = "playlist" /\ flavour = "null"
        THEN [hasTrack |-> FALSE, track |-> Blank, self |-> Blank]
    ELSE IF type = "playlist"
        THEN [hasTrack |-> TRUE, track |-> TrackAt(i, flavour), self |-> Blank]
    ELSE [hasTrack |-> FALSE, track |-> Blank, self |-> TrackAt(i, flavour)]

Counts == (0..MaxN) \cup {12}

NoMeta == [state |-> "absent", type |-> "none", n |-> 0, flavour |-> "plain",
           count |-> -1, songs |-> 0]

SpotifyMetas ==
    {NoMeta, [NoMeta EXCEPT !.state = "corrupt"]}
    \cup {[NoMeta EXCEPT !.state = "ok", !.type = t] : t \in {"artist", "track", "show"}}
    \cup {[NoMeta EXCEPT !.state = "ok", !.type = "playlist", !.n = n, !.flavour = f] :
            n \in Counts, f \in {"plain", "padded", "null"}}
    \cup {[NoMeta EXCEPT !.state = "ok", !.type = "album", !.n = n, !.flavour = f] :
            n \in Counts, f \in {"plain", "padded"}}

SuffixPool == {".mp3", ".flac", ".txt"}

StemPool == {<<"1">>, <<"0", "1">>, <<"0", "2">>, <<" ", "2">>,
             <<"0", "0", "7">>, <<"a", "1">>}

FilePool == [suffix : SuffixPool, stem : StemPool]

DirPool == {S \in SUBSET FilePool : Cardinality(S) <= MaxFiles}

\* Contents of a *.info.json file: its playlist_count, -1 when the field is
\* absent, -2 when the file is not valid JSON.
InfoContents == Counts \cup {-1, -2}

InfoPool ==
    {<<>>} \cup {<<c>> \o [i \in 1..k |-> -1] : c \in InfoContents, k \in 0..(MaxInfo - 1)}

----------------------------------------------------------------------------
(* SpotifyDownloader.cleanup / _find_missing_in_playlist *)

\* tracks is bound only for the four known types (an unknown type raises
\* UnboundLocalError inside the try block).
TracksBound(m) == m.type \in {"playlist", "album", "artist", "track"}

Tracks(m) ==
    CASE m.type \in {"playlist", "album"} ->
            [i \in 1..m.n |-> ItemAt(i, m.type, m.flavour)]
      [] m.type = "artist" -> <<>>
      [] m.type = "track" ->
            <<[hasTrack |-> FALSE, track |-> Blank, self |-> TrackAt(1, m.flavour)]>>

SpotifyAudio == {".mp3", ".flac", ".m4a"}

\* re.match(r'^\s*(\d+)', p.stem): group 1, <<>> when there is no match
SpotifyPrefix(stem) == DigitRun(LStrip(stem))

SpotifyMatches(fs) ==
    LET keep(p) == p.suffix \in SpotifyAudio /\ SpotifyPrefix(p.stem) # <<>>
        sel == SelectSeq(SetToSeq(fs), keep)
    IN  [i \in 1..Len(sel) |-> SpotifyPrefix(sel[i].stem)]

Numbers(matches) == Sort([i \in 1..Len(matches) |-> ToInt(matches[i])])

\* mutant of Padding: the width of the last file scanned instead of the maximum
PaddingLast(matches) == IF matches = <<>> THEN 0 ELSE Len(matches[Len(matches)])

Padding(matches) == MaxLen(matches)

\* mutant of MissingNums: range(1, expected_count) leaves the last position out
MissingNumsShort(expected_count, numbers) ==
    LET absent(n) == ~InSeq(n, numbers)
    IN  SelectSeq(Range(1, expected_count - 1), absent)

\* mutant of MissingNums: range(1, expected_count + 2) looks one position too far
MissingNumsLong(expected_count, numbers) ==
    LET absent(n) == ~InSeq(n, numbers)
    IN  SelectSeq(Range(1, expected_count + 1), absent)

MissingNums(expected_count, numbers) ==
    LET absent(n) == ~InSeq(n, numbers)
    IN  SelectSeq(Range(1, expected_count), absent)

\* tracks[num - 1].get("track") or tracks[num - 1]
ResolveTrack(item) == IF item.hasTrack THEN item.track ELSE item.self

\* mutant of SpotifySong: tracks[num] instead of tracks[num - 1], the next track
SpotifySongNeighbour(num, tracks, padding, expected_count) ==
    LET track == ResolveTrack(tracks[IF num < Len(tracks) THEN num + 1 ELSE num])
        num_str == ZeroPad(num, padding)
    IN  Song(track.spotify, <<>>, <<"Missing", " ">> \o num_str, Strip(track.name),
             track.artists, Playlist(<<>>, PlaylistName, expected_count), num_str)

SpotifySong(num, tracks, padding, expected_count) ==
    LET track == ResolveTrack(tracks[num])
        num_str == ZeroPad(num, padding)
    IN  Song(track.spotify, <<>>, <<"Missing", " ">> \o num_str, Strip(track.name),
             track.artists, Playlist(<<>>, PlaylistName, expected_count), num_str)

SpotifyMissingSongs(missing_nums, tracks, padding, expected_count) ==
    LET known(num) == num - 1 < Len(tracks)
        sel == SelectSeq(missing_nums, known)
    IN  [i \in 1..Len(sel) |-> SpotifySong(sel[i], tracks, padding, expected_count)]

FindMissingInPlaylist(m, fs) ==
    IF m.state = "absent" THEN [ret |-> <<>>, log |-> "no_metadata"]
    ELSE IF m.state = "corrupt" \/ ~TracksBound(m)
        THEN [ret |-> <<>>, log |-> "load_failed"]
    ELSE
        LET tracks == Tracks(m)
            expected_count == Len(tracks)
            matches == SpotifyMatches(fs)
            numbers == Numbers(matches)
            padding == Padding(matches)
            missing_nums == MissingNums(expected_count, numbers)
        IN  IF numbers = <<>> THEN [ret |-> <<>>, log |-> "no_numbered"]
            ELSE IF missing_nums = <<>> THEN [ret |-> <<>>, log |-> "all_present"]
            ELSE [ret |-> SpotifyMissingSongs(missing_nums, tracks, padding,
                                              expected_count),
                  log |-> "missing"]

SpotifyCleanup ==
    /\ provider = "spotify"
    /\ calls < MaxCalls
    /\ LET out == IF ~dirExists THEN [ret |-> <<>>, log |-> "no_dir"]
                  ELSE FindMissingInPlaylist(meta, files)
       IN  /\ result' = out.ret
           /\ lastLog' = out.log
    /\ calls' = calls + 1
    /\ UNCHANGED <<provider, dirExists, files, meta, infoFiles, descFile, rootInfo,
                   metaDir>>
    /\ UNCHANGED <<runVars, parseVars, linkVars, nameVars, fileVars>>

----------------------------------------------------------------------------
(* SoundCloudDownloader.cleanup / _cleanup_playlist *)

\* re.match(r'(\d+)', p.stem): group 1, <<>> when there is no match
ScPrefix(stem) == DigitRun(stem)

ScMatches(fs) ==
    LET keep(p) == p.suffix = ".mp3" /\ ScPrefix(p.stem) # <<>>
        sel == SelectSeq(SetToSeq(fs), keep)
    IN  [i \in 1..Len(sel) |-> ScPrefix(sel[i].stem)]

\* playlist_data.get('playlist_count', len(info_files)), playlist_data being {}
\* when the first info file does not load
ScExpectedCount(info_files) ==
    IF info_files[1] >= 0 THEN info_files[1] ELSE Len(info_files)

ScSong(num, padding, expected_count) ==
    LET num_str == ZeroPad(num, padding)
    IN  Song(<<>>, <<>>, <<"Missing", " ">> \o num_str, <<>>, <<>>,
             Playlist(<<>>, PlaylistName, expected_count), num_str)

ScMissingSongs(missing_numbers, padding, expected_count) ==
    [i \in 1..Len(missing_numbers) |-> ScSong(missing_numbers[i], padding, expected_count)]

\* The playlist JSON as rewritten at the end of _cleanup_playlist.
ScPlaylistJson(info_files) ==
    LET rest == SubSeq(info_files, 2, Len(info_files))
        loads(c) == c # -2
    IN  [state |-> "ok", type |-> "soundcloud", n |-> 0, flavour |-> "plain",
         count |-> IF info_files[1] >= 0 THEN info_files[1] ELSE -1,
         songs |-> Len(SelectSeq(rest, loads))]

CleanupPlaylist(info_files, fs) ==
    LET expected_count == ScExpectedCount(info_files)
        matches == ScMatches(fs)
        numbers == Numbers(matches)
        padding == Padding(matches)
        missing_numbers == MissingNums(expected_count, numbers)
        missing_songs == ScMissingSongs(missing_numbers, padding, expected_count)
    IN  [ret |-> missing_songs,
         log |-> IF missing_songs # <<>> THEN "sc_missing" ELSE "sc_all_present"]

SoundCloudCleanup ==
    /\ provider = "soundcloud"
    /\ calls < MaxCalls
    /\ rootInfo' = 0
    /\ metaDir' = TRUE
    /\ IF ~dirExists \/ infoFiles = <<>>
         THEN /\ result' = <<>>
              /\ lastLog' = "sc_no_info"
              /\ UNCHANGED <<meta, infoFiles, descFile>>
         ELSE LET out == CleanupPlaylist(infoFiles, files)
              IN  /\ result' = out.ret
                  /\ lastLog' = out.log
                  /\ meta' = ScPlaylistJson(infoFiles)
                  /\ infoFiles' = <<>>
                  /\ descFile' = FALSE
    /\ calls' = calls + 1
    /\ UNCHANGED <<provider, dirExists, files>>
    /\ UNCHANGED <<runVars, parseVars, linkVars, nameVars, fileVars>>

----------------------------------------------------------------------------
(* Reconciliation: any directory and metadata, cleanup called up to MaxCalls times *)

\* the orchestrator's variables while a single cleanup call is studied
RunIdle ==
    /\ mode = "none"
    /\ input = <<>>
    /\ pidx = 0
    /\ lidx = 0
    /\ step = "none"
    /\ exit_code = 0
    /\ aggregate = 0
    /\ playlist_name = "unset"
    /\ downloads = <<>>
    /\ codes = <<>>
    /\ cleanups = <<>>
    /\ fetchFailed = <<>>
    /\ parsed = <<>>
    /\ status = "none"
    /\ abortedBy = "none"
    /\ argc = 0
    /\ input_state = "none"
    /\ trace = <<>>
    /\ logLeft = {}

\* the parser's variables while the orchestrator or a cleanup call is studied
ParseIdle ==
    /\ parser = "none"
    /\ errlog = <<>>
    /\ failed_songs = <<>>
    /\ parse_error = FALSE
    /\ parse_done = FALSE
    /\ errfile_readable = TRUE

\* the link reader's variables while another part is studied
LinkIdle ==
    /\ reader = "none"
    /\ infile = <<>>
    /\ read_out = <<>>
    /\ read_done = FALSE

\* the name round trip's variables while another part is studied
NameIdle ==
    /\ container_name = <<>>
    /\ json_path = <<>>
    /\ playlist_name_arg = <<>>
    /\ metadata_path = <<>>
    /\ name_step = "none"

\* the error-log files' variables while another part is studied
FileIdle ==
    /\ clock = 0
    /\ errors_files = <<>>

InitReconcile ==
    /\ RunIdle
    /\ ParseIdle
    /\ LinkIdle
    /\ NameIdle
    /\ FileIdle
    /\ provider \in {"spotify", "soundcloud"}
    /\ dirExists \in (IF provider = "spotify" THEN BOOLEAN ELSE {TRUE})
    /\ files \in (IF dirExists THEN DirPool ELSE {{}})
    /\ meta \in (IF provider = "spotify" THEN SpotifyMetas ELSE {NoMeta})
    /\ infoFiles \in (IF provider = "soundcloud" THEN InfoPool ELSE {<<>>})
    /\ descFile \in (IF provider = "soundcloud" THEN BOOLEAN ELSE {FALSE})
    /\ rootInfo = (IF descFile THEN 1 ELSE 0)
    /\ metaDir = (meta.state # "absent" \/ (provider = "soundcloud" /\ ~descFile))
    /\ result = <<>>
    /\ lastLog = "none"
    /\ calls = 0

NextReconcile ==
    \/ SpotifyCleanup
    \/ SoundCloudCleanup

SpecReconcile == InitReconcile /\ [][NextReconcile]_vars

----------------------------------------------------------------------------
(* Reconciliation claims.  They are stated over one cleanup call: the       *)
(* unprimed variables are the directory and metadata the call reads, result' *)
(* is the list it returns.                                                   *)

IsCleanupStep == calls' = calls + 1

\* the audio files of the directory whose stem starts with a number, as the
\* adapter in use recognises them
AudioSet == IF provider = "spotify" THEN SpotifyAudio ELSE {".mp3"}

PrefixOf(f) == IF provider = "spotify" THEN SpotifyPrefix(f.stem) ELSE ScPrefix(f.stem)

ParsedFiles == {f \in files : f.suffix \in AudioSet /\ PrefixOf(f) # <<>>}

OnDiskNumbers == {ToInt(PrefixOf(f)) : f \in ParsedFiles}

\* the widest numeric prefix on disk, 0 when there is none
OnDiskWidth ==
    IF ParsedFiles = {} THEN 0
    ELSE CHOOSE w \in {Len(PrefixOf(f)) : f \in ParsedFiles} :
            \A f \in ParsedFiles : Len(PrefixOf(f)) <= w

\* the call has a container to compare against
MetadataLoaded ==
    IF provider = "spotify"
        THEN dirExists /\ meta.state = "ok" /\ TracksBound(meta)
        ELSE dirExists /\ infoFiles # <<>>

ExpectedCount ==
    IF provider = "spotify" THEN Len(Tracks(meta)) ELSE ScExpectedCount(infoFiles)

\* the expected track list the adapter holds (SoundCloud reads none)
ExpectedTracks ==
    IF provider = "spotify"
        THEN [i \in 1..Len(Tracks(meta)) |-> ResolveTrack(Tracks(meta)[i])]
        ELSE <<>>

MissingSet == (1..ExpectedCount) \ OnDiskNumbers

\* the i-th missing position in ascending order
KthMissing(i) ==
    CHOOSE k \in MissingSet : Cardinality({j \in MissingSet : j < k}) = i - 1

NumDigits(k) == IF k < 10 THEN 1 ELSE IF k < 100 THEN 2 ELSE 3

PositionOf(rec) == ToInt(rec.list_position)

\* C1: when no file of the directory has a parseable leading number, the call
\* returns an outcome the caller can tell from the empty missing-list (the
\* value <<>> that a verified-complete container returns), and it does not
\* report all N positions as missing.
C1_NoResultIsDistinct ==
    [][(IsCleanupStep /\ MetadataLoaded /\ OnDiskNumbers = {})
        => /\ result' # <<>>
           /\ ExpectedCount > 0 =>
                {PositionOf(result'[i]) : i \in 1..Len(result')} # 1..ExpectedCount]_vars

\* C2: when at least one on-disk number is parseable, the positions of the
\* returned records are exactly the integers of 1..N that are not among the
\* on-disk numbers, ascending, each once.
C2_MissingPositionsExact ==
    [][(IsCleanupStep /\ MetadataLoaded /\ OnDiskNumbers # {})
        => /\ {PositionOf(result'[i]) : i \in 1..Len(result')} = MissingSet
           /\ \A i, j \in 1..Len(result') :
                i < j => PositionOf(result'[i]) < PositionOf(result'[j])]_vars

\* C2 witness: a call returned records although a number above N and a
\* duplicate number are on disk.
C2_Witness ==
    /\ calls > 0
    /\ MetadataLoaded
    /\ result # <<>>
    /\ \E f \in ParsedFiles : ToInt(PrefixOf(f)) > ExpectedCount
    /\ \E f, g \in ParsedFiles : f # g /\ ToInt(PrefixOf(f)) = ToInt(PrefixOf(g))

\* C3: every reported position is rendered in decimal, zero-padded to the
\* widest numeric prefix on disk whatever the digits of N, and a position with
\* more digits than that width is rendered in full; the tag is "Missing " and
\* the rendered position.
C3_PaddingWidth ==
    [][(IsCleanupStep /\ MetadataLoaded)
        => \A i \in 1..Len(result') :
             i <= Cardinality(MissingSet) =>
                LET s == result'[i].list_position
                    k == KthMissing(i)
                IN  /\ \A d \in 1..Len(s) : IsDigit(s[d])
                    /\ ToInt(s) = k
                    /\ Len(s) = Max(OnDiskWidth, NumDigits(k))
                    /\ result'[i].error = <<"Missing", " ">> \o s]_vars

\* C3 witness: Spotify returned a position with more digits than the on-disk
\* width next to ones of exactly that width.
C3_Witness ==
    /\ calls > 0
    /\ provider = "spotify"
    /\ OnDiskWidth >= 1
    /\ \E i \in 1..Len(result) : Len(result[i].list_position) > OnDiskWidth
    /\ \E i \in 1..Len(result) : Len(result[i].list_position) = OnDiskWidth

\* Original statement of C4: every missing position k has a record; when k - 1
\* indexes the expected track list the record carries exactly that track's
\* title, artists and URL, otherwise only the position and the bare tag.
C4_ExactTrackData ==
    [][(IsCleanupStep /\ MetadataLoaded /\ OnDiskNumbers # {})
        => /\ Len(result') = Cardinality(MissingSet)
           /\ \A i \in 1..Len(result') :
                LET k == KthMissing(i)
                    rec == result'[i]
                IN  /\ PositionOf(rec) = k
                    /\ rec.error = <<"Missing", " ">> \o rec.list_position
                    /\ IF k <= Len(ExpectedTracks)
                         THEN /\ rec.title = ExpectedTracks[k].name
                              /\ rec.artists = ExpectedTracks[k].artists
                              /\ rec.song_url = ExpectedTracks[k].spotify
                         ELSE /\ rec.title = <<>>
                              /\ rec.artists = <<>>
                              /\ rec.song_url = <<>>]_vars

\* C4 (amended): every missing position k has a record; when k - 1 indexes the
\* expected track list the record carries that track's title with surrounding
\* white space stripped, and exactly its artists and URL; otherwise it carries
\* only the position and the bare tag.
C4_TrackDataStripped ==
    [][(IsCleanupStep /\ MetadataLoaded /\ OnDiskNumbers # {})
        => /\ Len(result') = Cardinality(MissingSet)
           /\ \A i \in 1..Len(result') :
                LET k == KthMissing(i)
                    rec == result'[i]
                IN  /\ PositionOf(rec) = k
                    /\ rec.error = <<"Missing", " ">> \o rec.list_position
                    /\ IF k <= Len(ExpectedTracks)
                         THEN /\ rec.title = Strip(ExpectedTracks[k].name)
                              /\ rec.artists = ExpectedTracks[k].artists
                              /\ rec.song_url = ExpectedTracks[k].spotify
                         ELSE /\ rec.title = <<>>
                              /\ rec.artists = <<>>
                              /\ rec.song_url = <<>>]_vars

\* C4 witness: Spotify returned the record of a missing position that is not
\* the first of a playlist whose titles carry surrounding white space.
C4_Witness ==
    /\ calls > 0
    /\ provider = "spotify"
    /\ MetadataLoaded
    /\ meta.type = "playlist"
    /\ meta.flavour = "padded"
    /\ \E i \in 1..Len(result) :
         /\ PositionOf(result[i]) > 1
         /\ result[i].title = <<"t">> \o Render(PositionOf(result[i]))

\* the directory holds exactly the numbers 1..N of a loaded container
Complete == MetadataLoaded /\ OnDiskNumbers = 1..ExpectedCount

\* C5: when the on-disk numbers are exactly 1..N the call returns the empty
\* list, and a call that follows an empty result on the same directory
\* returns the empty list again.
C5_CompleteIsEmptyAndStable ==
    [][IsCleanupStep
        => /\ Complete => result' = <<>>
           /\ (calls >= 1 /\ result = <<>>) => result' = <<>>]_vars

\* C5 witness: the second call on a directory holding exactly 1..N, N >= 2,
\* returned the empty list as the first did.
C5_Witness ==
    /\ calls >= 2
    /\ provider = "spotify"
    /\ Complete
    /\ ExpectedCount >= 2
    /\ lastLog = "all_present"
    /\ result = <<>>

----------------------------------------------------------------------------
(* Orchestration: Coordinator.process_all / process_provider, and the       *)
(* single-provider main.main                                                 *)

\* Coordinator.process_all: for provider in ["soundcloud", "youtube", "spotify"]
ProviderOrder == <<"soundcloud", "youtube", "spotify">>

\* A link: the domain of its URL and the first segment of its path.
LinkPool ==
    {[host |-> "soundcloud.com", type |-> "sets"],
     [host |-> "youtube.com", type |-> "playlist"],
     [host |-> "spotify.com", type |-> "playlist"],
     [host |-> "spotify.com", type |-> "show"]}

\* main.clean_url keeps only open.spotify.com links
LegacyLinkPool == {l \in LinkPool : l.host = "spotify.com"}

Inputs(pool) == UNION {[1..k -> pool] : k \in 0..MaxLinks}

\* read_links: the list a link is appended to
ProviderOfLink(url) ==
    IF url.host = "spotify.com" THEN "spotify"
    ELSE IF url.host = "soundcloud.com" THEN "soundcloud"
    ELSE IF url.host \in {"youtube.com", "youtu.be"} THEN "youtube"
    ELSE "none"

LinksByProvider(links, p) ==
    LET mine(url) == ProviderOfLink(url) = p
    IN  SelectSeq(links, mine)

\* the codes subprocess.run returns; a timeout or an exception in it gives 1
ExitCodes == {0, 1, 2}

\* "playlist" in link / "album" in link / "artist" in link / "track" in link
KnownType(link) == link.type \in {"playlist", "album", "artist", "track"}

\* SpotifyDownloader.download: _use_correct_config returns None for a link of
\* no known type, and ' '.join(cmd) then raises TypeError before the try block.
DownloadRaises(p, link) == p = "spotify" /\ ~KnownType(link)

\* YouTubeDownloader.fetch_metadata_image (4.4, 7): a container name, or no
\* container after a logged failure
YouTubeFetchOutcomes == {"name", "None"}

\* YouTubeDownloader.cleanup (4.4, 7): reconciliation is skipped when there is
\* no container
YouTubeCleanupSkips(name) == name = "None"

\* fetch_metadata_image: "raise" is an exception of the provider client
FetchOutcomes(p, link) ==
    CASE p = "spotify" -> IF KnownType(link) THEN {"name", "raise"} ELSE {"None"}
      [] p = "soundcloud" -> {"Test"}
      [] p = "youtube" -> YouTubeFetchOutcomes

\* SpotifyDownloader.cleanup(None): self.output_dir / None raises TypeError
CleanupRaises(p, name) == p = "spotify" /\ name = "None"

CurrentProvider == ProviderOrder[pidx]

CurrentLinks ==
    IF mode = "legacy" THEN input ELSE LinksByProvider(input, CurrentProvider)

CurrentLink == CurrentLinks[lidx]

ReconcileIdle ==
    /\ provider = "none"
    /\ dirExists = FALSE
    /\ files = {}
    /\ meta = NoMeta
    /\ infoFiles = <<>>
    /\ descFile = FALSE
    /\ rootInfo = 0
    /\ metaDir = FALSE
    /\ result = <<>>
    /\ lastLog = "none"
    /\ calls = 0

\* len(sys.argv) - 1: none, one, the two expected, one too many
ArgCounts == 0..3

\* input_file.is_file() and input_path.open
InputStates == {"file", "missing", "unreadable"}

\* a step of the orchestrator for the k-th download invocation of the run
Event(ev, k) == [ev |-> ev, k |-> k]

InitRun ==
    /\ ReconcileIdle
    /\ ParseIdle
    /\ LinkIdle
    /\ NameIdle
    /\ FileIdle
    /\ mode \in {"coordinator", "legacy"}
    /\ argc \in (IF mode = "legacy" THEN ArgCounts ELSE {2})
    /\ input_state \in (IF mode = "legacy" /\ argc >= 2 THEN InputStates ELSE {"file"})
    /\ input \in (IF mode = "coordinator" THEN Inputs(LinkPool)
                  ELSE IF argc >= 2 /\ input_state = "file" THEN Inputs(LegacyLinkPool)
                  ELSE {<<>>})
    /\ trace = <<>>
    /\ logLeft = {}
    /\ pidx = 1
    /\ lidx = 0
    /\ step = (IF mode = "legacy" THEN "main" ELSE "provider")
    /\ exit_code = 0
    /\ aggregate = 0
    /\ playlist_name = "unset"
    /\ downloads = <<>>
    /\ codes = <<>>
    /\ cleanups = <<>>
    /\ fetchFailed = <<>>
    /\ parsed = <<>>
    /\ status = "running"
    /\ abortedBy = "none"

\* mutant of ReturnToProcessAll: exit_code = provider_exit without the test
ReturnToProcessAllOverwrite(provider_exit) ==
    /\ aggregate' = provider_exit
    /\ IF pidx < Len(ProviderOrder)
         THEN /\ pidx' = pidx + 1
              /\ step' = "provider"
              /\ status' = status
         ELSE /\ pidx' = pidx
              /\ step' = "none"
              /\ status' = "done"

\* process_provider returned provider_exit to process_all: the loop of
\* process_all goes to the next provider or returns
ReturnToProcessAll(provider_exit) ==
    /\ aggregate' = (IF provider_exit # 0 THEN provider_exit ELSE aggregate)
    /\ IF pidx < Len(ProviderOrder)
         THEN /\ pidx' = pidx + 1
              /\ step' = "provider"
              /\ status' = status
         ELSE /\ pidx' = pidx
              /\ step' = "none"
              /\ status' = "done"

\* process_provider with no links: returns 0 at once
ProcessProviderEmpty ==
    /\ mode = "coordinator" /\ status = "running" /\ step = "provider"
    /\ CurrentLinks = <<>>
    /\ ReturnToProcessAll(0)
    /\ UNCHANGED <<trace, logLeft, argc, input_state, mode, input, lidx, exit_code,
                   playlist_name, downloads, codes, cleanups, fetchFailed, parsed,
                   abortedBy>>
    /\ UNCHANGED <<reconcileVars, parseVars, linkVars, nameVars, fileVars>>

ProcessProviderBegin ==
    /\ mode = "coordinator" /\ status = "running" /\ step = "provider"
    /\ CurrentLinks # <<>>
    /\ exit_code' = 0
    /\ lidx' = 1
    /\ step' = "download"
    /\ UNCHANGED <<trace, logLeft, argc, input_state, mode, input, pidx, aggregate,
                   playlist_name, downloads, codes, cleanups, fetchFailed, parsed, status,
                   abortedBy>>
    /\ UNCHANGED <<reconcileVars, parseVars, linkVars, nameVars, fileVars>>

Abort(by) ==
    /\ status' = "aborted"
    /\ abortedBy' = by
    /\ step' = "none"

\* mutant of Download: the metadata fetch of the link is left out
DownloadSkipFetch ==
    /\ mode = "coordinator" /\ status = "running" /\ step = "download"
    /\ downloads' = Append(downloads, CurrentLink)
    /\ trace' = Append(trace, Event("download", Len(downloads) + 1))
    /\ IF DownloadRaises(CurrentProvider, CurrentLink)
         THEN /\ Abort("download")
              /\ UNCHANGED <<codes, exit_code, logLeft>>
         ELSE \E code \in ExitCodes, left \in BOOLEAN :
                /\ codes' = Append(codes, code)
                /\ exit_code' = (IF code # 0 THEN code ELSE exit_code)
                /\ logLeft' = (IF left THEN logLeft \cup {Len(downloads) + 1} ELSE logLeft)
                /\ step' = "cleanup"
                /\ UNCHANGED <<status, abortedBy>>
    /\ UNCHANGED <<argc, input_state, mode, input, pidx, lidx, aggregate, playlist_name,
                   cleanups, fetchFailed, parsed>>
    /\ UNCHANGED <<reconcileVars, parseVars, linkVars, nameVars, fileVars>>

\* code, errors_file = downloader.download(link); if code != 0: exit_code = code
Download ==
    /\ mode = "coordinator" /\ status = "running" /\ step = "download"
    /\ downloads' = Append(downloads, CurrentLink)
    /\ trace' = Append(trace, Event("download", Len(downloads) + 1))
    /\ IF DownloadRaises(CurrentProvider, CurrentLink)
         THEN /\ Abort("download")
              /\ UNCHANGED <<codes, exit_code, logLeft>>
         ELSE \E code \in ExitCodes, left \in BOOLEAN :
                /\ codes' = Append(codes, code)
                /\ exit_code' = (IF code # 0 THEN code ELSE exit_code)
                /\ logLeft' = (IF left THEN logLeft \cup {Len(downloads) + 1} ELSE logLeft)
                /\ step' = "fetch"
                /\ UNCHANGED <<status, abortedBy>>
    /\ UNCHANGED <<argc, input_state, mode, input, pidx, lidx, aggregate, playlist_name,
                   cleanups, fetchFailed, parsed>>
    /\ UNCHANGED <<reconcileVars, parseVars, linkVars, nameVars, fileVars>>

\* playlist_name = downloader.fetch_metadata_image(link)
FetchMetadataImage ==
    /\ mode = "coordinator" /\ status = "running" /\ step = "fetch"
    /\ trace' = Append(trace, Event("fetch", Len(downloads)))
    /\ \E out \in FetchOutcomes(CurrentProvider, CurrentLink) :
         /\ fetchFailed' = (IF out \in {"raise", "None"}
                              THEN Append(fetchFailed, CurrentLink) ELSE fetchFailed)
         /\ IF out = "raise"
              THEN /\ Abort("fetch")
                   /\ UNCHANGED playlist_name
              ELSE /\ playlist_name' = out
                   /\ step' = "cleanup"
                   /\ UNCHANGED <<status, abortedBy>>
    /\ UNCHANGED <<argc, input_state, mode, input, pidx, lidx, exit_code, aggregate,
                   downloads, codes, cleanups, parsed, logLeft>>
    /\ UNCHANGED <<reconcileVars, parseVars, linkVars, nameVars, fileVars>>

\* missing = downloader.cleanup(playlist_name), then the next link or the return
Cleanup ==
    /\ mode = "coordinator" /\ status = "running" /\ step = "cleanup"
    /\ trace' = Append(trace, Event("cleanup", Len(downloads)))
    /\ IF CleanupRaises(CurrentProvider, playlist_name)
         THEN /\ Abort("cleanup")
              /\ UNCHANGED <<cleanups, lidx>>
         ELSE /\ cleanups' =
                    (IF CurrentProvider = "youtube" /\ YouTubeCleanupSkips(playlist_name)
                       THEN cleanups ELSE Append(cleanups, CurrentLink))
              /\ IF lidx < Len(CurrentLinks)
                   THEN lidx' = lidx + 1 /\ step' = "download"
                   ELSE lidx' = lidx /\ step' = "return"
              /\ UNCHANGED <<status, abortedBy>>
    /\ UNCHANGED <<argc, input_state, mode, input, pidx, exit_code, aggregate,
                   playlist_name, downloads, codes, fetchFailed, parsed, logLeft>>
    /\ UNCHANGED <<reconcileVars, parseVars, linkVars, nameVars, fileVars>>

\* return exit_code, and process_all: if provider_exit != 0: exit_code = provider_exit
ProcessProviderReturn ==
    /\ mode = "coordinator" /\ status = "running" /\ step = "return"
    /\ ReturnToProcessAll(exit_code)
    /\ UNCHANGED <<trace, logLeft, argc, input_state, mode, input, lidx, exit_code,
                   playlist_name, downloads, codes, cleanups, fetchFailed, parsed,
                   abortedBy>>
    /\ UNCHANGED <<reconcileVars, parseVars, linkVars, nameVars, fileVars>>

\* main.main up to the loop: sys.exit(1) after the usage text when fewer than
\* two arguments are given, sys.exit(1) when the input file is not a file, and
\* sys.exit(1) when read_spotify_links returned no link (an unreadable file
\* gives none)
MainStart ==
    /\ mode = "legacy" /\ status = "running" /\ step = "main"
    /\ IF argc < 2
         THEN /\ status' = "usage_error"
              /\ aggregate' = 1
              /\ step' = "none"
              /\ UNCHANGED <<lidx, exit_code>>
         ELSE IF input_state = "missing" \/ input = <<>>
         THEN /\ status' = "input_error"
              /\ aggregate' = 1
              /\ step' = "none"
              /\ UNCHANGED <<lidx, exit_code>>
         ELSE /\ exit_code' = 0
              /\ lidx' = 1
              /\ step' = "download"
              /\ UNCHANGED <<status, aggregate>>
    /\ UNCHANGED <<trace, logLeft, argc, input_state, mode, input, pidx, playlist_name,
                   downloads, codes, cleanups, fetchFailed, parsed, abortedBy>>
    /\ UNCHANGED <<reconcileVars, parseVars, linkVars, nameVars, fileVars>>

\* code, errors_file = run_spotdl_for_link(link, ...); if code != 0: exit_code = code
RunSpotdlForLink ==
    /\ mode = "legacy" /\ status = "running" /\ step = "download"
    /\ \E code \in ExitCodes, left \in BOOLEAN :
         /\ downloads' = Append(downloads, CurrentLink)
         /\ codes' = Append(codes, code)
         /\ exit_code' = (IF code # 0 THEN code ELSE exit_code)
         /\ logLeft' = (IF left THEN logLeft \cup {Len(downloads) + 1} ELSE logLeft)
    /\ trace' = Append(trace, Event("download", Len(downloads) + 1))
    /\ step' = "parse"
    /\ UNCHANGED <<argc, input_state, mode, input, pidx, lidx, aggregate, playlist_name,
                   cleanups, fetchFailed, parsed, status, abortedBy>>
    /\ UNCHANGED <<reconcileVars, parseVars, linkVars, nameVars, fileVars>>

\* if errors_file.is_file(): parse_errors(...), then the next link or the exit
ParseErrorLog ==
    /\ mode = "legacy" /\ status = "running" /\ step = "parse"
    /\ LET is_file == Len(downloads) \in logLeft
       IN  /\ parsed' = (IF is_file THEN Append(parsed, CurrentLink) ELSE parsed)
           /\ trace' = (IF is_file THEN Append(trace, Event("parse", Len(downloads)))
                        ELSE trace)
    /\ IF lidx < Len(CurrentLinks)
         THEN lidx' = lidx + 1 /\ step' = "download"
         ELSE lidx' = lidx /\ step' = "exit"
    /\ UNCHANGED <<argc, input_state, mode, input, pidx, exit_code, aggregate,
                   playlist_name, downloads, codes, cleanups, fetchFailed, status,
                   abortedBy, logLeft>>
    /\ UNCHANGED <<reconcileVars, parseVars, linkVars, nameVars, fileVars>>

\* sys.exit(exit_code)
MainExit ==
    /\ mode = "legacy" /\ status = "running" /\ step = "exit"
    /\ aggregate' = exit_code
    /\ status' = "done"
    /\ step' = "none"
    /\ UNCHANGED <<trace, logLeft, argc, input_state, mode, input, pidx, lidx, exit_code,
                   playlist_name, downloads, codes, cleanups, fetchFailed, parsed,
                   abortedBy>>
    /\ UNCHANGED <<reconcileVars, parseVars, linkVars, nameVars, fileVars>>

NextRun ==
    \/ ProcessProviderEmpty
    \/ ProcessProviderBegin
    \/ Download
    \/ FetchMetadataImage
    \/ Cleanup
    \/ ProcessProviderReturn
    \/ MainStart
    \/ RunSpotdlForLink
    \/ ParseErrorLog
    \/ MainExit

SpecRun == InitRun /\ [][NextRun]_vars

----------------------------------------------------------------------------
(* Orchestration claims *)

AllZero(cs) == \A i \in 1..Len(cs) : cs[i] = 0

\* the last non-zero code of cs, 0 when there is none
LastNonZero(cs) ==
    IF AllZero(cs) THEN 0
    ELSE cs[CHOOSE i \in 1..Len(cs) : cs[i] # 0 /\ \A j \in (i + 1)..Len(cs) : cs[j] = 0]

\* the downloads of a run that reaches its end: the providers in their fixed
\* order, each provider's links in file order
ExpectedDownloads ==
    IF mode = "legacy" THEN input
    ELSE LinksByProvider(input, "soundcloud") \o LinksByProvider(input, "youtube")
            \o LinksByProvider(input, "spotify")

C7_FailSoftSequencing ==
    /\ Len(downloads) <= Len(ExpectedDownloads)
    /\ downloads = SubSeq(ExpectedDownloads, 1, Len(downloads))
    /\ (status \in {"done", "aborted"} /\ abortedBy \notin {"fetch", "cleanup"})
            => downloads = ExpectedDownloads

\* C8: a failed metadata fetch skips the reconcile of that link only and does
\* not end the run: every later link of every provider is still processed.
C8_FetchFailureIsContained ==
    fetchFailed # <<>>
        => /\ status # "aborted"
           /\ status = "done"
                => /\ downloads = ExpectedDownloads
                   /\ Len(cleanups) = Len(downloads) - Len(fetchFailed)

----------------------------------------------------------------------------
(* Error-log parser: parse_errors of src/utils.py and of main.py *)

\* s[i..] starts with sub
StartsAt(s, sub, i) ==
    /\ i >= 1
    /\ i + Len(sub) - 1 <= Len(s)
    /\ SubSeq(s, i, i + Len(sub) - 1) = sub

\* str.find, 1-based; 0 when sub does not occur
Find(s, sub) ==
    IF \E i \in 1..Len(s) : StartsAt(s, sub, i)
        THEN CHOOSE i \in 1..Len(s) :
                StartsAt(s, sub, i) /\ \A j \in 1..(i - 1) : ~StartsAt(s, sub, j)
        ELSE 0

\* sub in s
Contains(s, sub) == Find(s, sub) # 0

\* s.split(sep)
RECURSIVE Split(_, _)
Split(s, sep) ==
    LET i == Find(s, sep)
    IN  IF i = 0 THEN <<s>>
        ELSE <<SubSeq(s, 1, i - 1)>> \o Split(SubSeq(s, i + Len(sep), Len(s)), sep)

\* s.split(sep, 1)
SplitOnce(s, sep) ==
    LET i == Find(s, sep)
    IN  IF i = 0 THEN <<s>>
        ELSE <<SubSeq(s, 1, i - 1), SubSeq(s, i + Len(sep), Len(s))>>

TrackPrefix == "https://open.spotify.com/track/"

LookupMarker == <<" ", "-", " ", "LookupError: No results found for song:">>

KeyMarker == <<" ", "-", " ", "KeyError:", " ", "'webCommandMetadata'">>

KeySplit == <<" ", "-", " ", "KeyError:">>

BackendMarker ==
    <<" ", "-", " ", "AudioProviderError: YT-DLP download error", " ", "-", " ">>

Sep == <<" ", "-", " ">>

\* the Song class of main.py
LegacySong(title, artists, spotify_url, playlist_url, error) ==
    [title |-> title, artists |-> artists, spotify_url |-> spotify_url,
     playlist_url |-> playlist_url, error |-> error]

\* Song(song_url=..., playlist_url=..., error=..., title=..., artists=...) of
\* src/models.py: playlist defaults to Playlist(playlist_url), list_position to ""
FailedSong(variant, song_link, playlist_url, error, title, artists) ==
    IF variant = "utils"
        THEN Song(Strip(song_link), playlist_url, error, title, artists,
                  Playlist(playlist_url, "", 0), <<>>)
        ELSE LegacySong(title, artists, Strip(song_link), playlist_url, error)

\* [a.strip() for a in artists.split(',')]
ArtistList(artists) ==
    LET pieces == Split(artists, <<",">>)
    IN  [i \in 1..Len(pieces) |-> Strip(pieces[i])]

NoSong == [title |-> <<>>]

\* The body of the loop of parse_errors for one line: "skip" (continue, or no
\* marker matched), "song" (a record appended) or "raise" (IndexError).
ParseLine(variant, raw, playlist_url) ==
    LET line == Strip(raw)
    IN  IF line = <<>> \/ Head(line) # TrackPrefix
            THEN [kind |-> "skip", song |-> NoSong]
        ELSE IF Contains(line, LookupMarker)
            THEN LET song_link == SplitOnce(line, LookupMarker)[1]
                     pieces == Split(SplitOnce(line, LookupMarker)[2], Sep)
                 IN  IF Len(pieces) < 2
                        THEN [kind |-> "raise", song |-> NoSong]
                        ELSE [kind |-> "song",
                              song |-> FailedSong(variant, song_link, playlist_url,
                                          <<"LookupError: No results found">>,
                                          Strip(pieces[2]), ArtistList(pieces[1]))]
        ELSE IF Contains(line, KeyMarker)
            THEN [kind |-> "song",
                  song |-> FailedSong(variant, SplitOnce(line, KeySplit)[1], playlist_url,
                              <<"KeyError: 'webCommandMetadata'">>,
                              IF variant = "utils" THEN <<>> ELSE <<"Unknown Title">>,
                              IF variant = "utils" THEN <<>>
                              ELSE << <<"Unknown Artist">> >>)]
        ELSE IF Contains(line, BackendMarker)
            THEN [kind |-> "song",
                  song |-> FailedSong(variant, SplitOnce(line, BackendMarker)[1],
                              playlist_url,
                              <<"AudioProviderError: YT-DLP download error">>,
                              IF variant = "utils" THEN <<>> ELSE <<"Unknown Title">>,
                              IF variant = "utils" THEN <<>>
                              ELSE << <<"Unknown Artist">> >>)]
        ELSE [kind |-> "skip", song |-> NoSong]

RECURSIVE ParseLoop(_, _, _, _, _)
\* mutant of ParseLoop: failed_songs.insert(0, ...) in place of append
ParseLoopPrepend(variant, log, playlist_url, i, acc) ==
    IF i > Len(log) THEN [songs |-> acc, error |-> FALSE]
    ELSE LET r == ParseLine(variant, log[i], playlist_url)
         IN  IF r.kind = "raise" THEN [songs |-> acc, error |-> TRUE]
             ELSE IF r.kind = "song"
                 THEN ParseLoop(variant, log, playlist_url, i + 1, <<r.song>> \o acc)
             ELSE ParseLoop(variant, log, playlist_url, i + 1, acc)

\* for line in ef: ... inside try / except Exception: logger.error(...)
ParseLoop(variant, log, playlist_url, i, acc) ==
    IF i > Len(log) THEN [songs |-> acc, error |-> FALSE]
    ELSE LET r == ParseLine(variant, log[i], playlist_url)
         IN  IF r.kind = "raise" THEN [songs |-> acc, error |-> TRUE]
             ELSE IF r.kind = "song"
                 THEN ParseLoop(variant, log, playlist_url, i + 1, Append(acc, r.song))
             ELSE ParseLoop(variant, log, playlist_url, i + 1, acc)

\* errors_file.open raising is caught by the same except clause
ParseErrors(variant, readable, log, playlist_url) ==
    IF readable THEN ParseLoop(variant, log, playlist_url, 1, <<>>)
    ELSE [songs |-> <<>>, error |-> TRUE]

PlaylistUrl == <<"https://open.spotify.com/playlist/", "p">>

TrackUrl == <<TrackPrefix, "x">>

FallbackUrl == <<"https://music.youtube.com/watch?v=", "y">>

\* pieces of the text after "No results found for song:"
Chunks == {<<"a">>, <<",", "b">>, <<" ">>, Sep \o <<"t">>, Sep \o <<"u">>}

RECURSIVE Flatten(_)
Flatten(ss) == IF ss = <<>> THEN <<>> ELSE Head(ss) \o Flatten(Tail(ss))

Bodies == {Flatten(cs) : cs \in UNION {[1..k -> Chunks] : k \in 0..MaxChunks}}

LookupLines == {TrackUrl \o LookupMarker \o <<" ">> \o b : b \in Bodies}

BackendLine == TrackUrl \o BackendMarker \o FallbackUrl

FixedLines ==
    {<<>>,
     <<"https://open.spotify.com/playlist/", "x">> \o KeyMarker,
     <<"INFO", " ", "done">>,
     TrackUrl \o Sep \o <<"OtherError">>,
     TrackUrl \o KeyMarker,
     BackendLine,
     <<" ">> \o BackendLine \o <<" ">>,
     TrackUrl \o LookupMarker \o <<" ", "a", ",", " ", "b">> \o Sep \o <<"t">>,
     TrackUrl \o LookupMarker \o <<" ", "a">>,
     TrackUrl \o LookupMarker \o <<" ", "a">> \o BackendMarker \o FallbackUrl}

LogPool ==
    {<<l>> : l \in LookupLines} \cup UNION {[1..k -> FixedLines] : k \in 0..MaxLines}

InitParse ==
    /\ ReconcileIdle
    /\ RunIdle
    /\ LinkIdle
    /\ NameIdle
    /\ FileIdle
    /\ parser \in {"utils", "main"}
    /\ errfile_readable \in BOOLEAN
    /\ errlog \in (IF errfile_readable THEN LogPool ELSE {<<>>})
    /\ failed_songs = <<>>
    /\ parse_error = FALSE
    /\ parse_done = FALSE

ParseErrorsCall ==
    /\ parser \in {"utils", "main"}
    /\ ~parse_done
    /\ LET out == ParseErrors(parser, errfile_readable, errlog, PlaylistUrl)
       IN  /\ failed_songs' = out.songs
           /\ parse_error' = out.error
    /\ parse_done' = TRUE
    /\ UNCHANGED <<parser, errlog, errfile_readable>>
    /\ UNCHANGED <<reconcileVars, runVars, linkVars, nameVars, fileVars>>

NextParse == ParseErrorsCall

SpecParse == InitParse /\ [][NextParse]_vars

----------------------------------------------------------------------------
(* Parser claims *)

\* the last position at which sub occurs in s, 0 when it does not occur
FindLast(s, sub) ==
    IF \E i \in 1..Len(s) : StartsAt(s, sub, i)
        THEN CHOOSE i \in 1..Len(s) :
                StartsAt(s, sub, i) /\ \A j \in (i + 1)..Len(s) : ~StartsAt(s, sub, j)
        ELSE 0

AfterLast(s, sub) == SubSeq(s, FindLast(s, sub) + Len(sub), Len(s))

BeforeLast(s, sub) == SubSeq(s, 1, FindLast(s, sub) - 1)

\* the log is one line "<track-url> - LookupError: No results found for song:
\* <artists> - <title>"
IsLookupLog ==
    /\ Len(errlog) = 1
    /\ StartsAt(errlog[1], TrackUrl \o LookupMarker, 1)
    /\ Contains(SubSeq(errlog[1], Len(TrackUrl \o LookupMarker) + 1, Len(errlog[1])), Sep)

LookupRest == SubSeq(errlog[1], Len(TrackUrl \o LookupMarker) + 1, Len(errlog[1]))

UrlOf(rec) == IF parser = "utils" THEN rec.song_url ELSE rec.spotify_url

\* the text fields of a record
TextFields(rec) ==
    IF parser = "utils"
        THEN {rec.title, rec.song_url, rec.playlist_url, rec.error, rec.list_position}
        ELSE {rec.title, rec.spotify_url, rec.playlist_url, rec.error}

\* C9: a lookup-not-found line gives one record of that category with the track
\* URL, the artists being the comma-split trimmed text before the last " - "
\* and the title the text after the last " - ".
C9_LookupTitleAfterLastSeparator ==
    (parse_done /\ IsLookupLog)
        => /\ Len(failed_songs) = 1
           /\ failed_songs[1].error = <<"LookupError: No results found">>
           /\ UrlOf(failed_songs[1]) = TrackUrl
           /\ failed_songs[1].title = Strip(AfterLast(LookupRest, Sep))
           /\ failed_songs[1].artists = ArtistList(BeforeLast(LookupRest, Sep))

\* the log is one line with the backend-failure marker and a fallback URL
IsBackendLog == Len(errlog) = 1 /\ Strip(errlog[1]) = BackendLine

\* C10: a backend-failure line gives one record of category
\* download-backend-error that holds the fallback URL and has neither title
\* nor artists.
C10_BackendDetailIsFallbackUrl ==
    (parse_done /\ IsBackendLog)
        => /\ Len(failed_songs) = 1
           /\ failed_songs[1].error = <<"AudioProviderError: YT-DLP download error">>
           /\ UrlOf(failed_songs[1]) = TrackUrl
           /\ FallbackUrl \in TextFields(failed_songs[1])
           /\ failed_songs[1].title = <<>>
           /\ failed_songs[1].artists = <<>>

\* a lookup-not-found line with no " - " between artists and title
IsMalformedLine(raw) ==
    LET line == Strip(raw)
    IN  /\ line # <<>>
        /\ Head(line) = TrackPrefix
        /\ Contains(line, LookupMarker)
        /\ ~Contains(SplitOnce(line, LookupMarker)[2], Sep)

IsMalformedLog == \E i \in 1..Len(errlog) : IsMalformedLine(errlog[i])

\* C11: a malformed or unreadable error log gives zero records and a reported
\* parse error, and parse_errors returns.
C11_MalformedLogGivesNoRecords ==
    (parse_done /\ (IsMalformedLog \/ ~errfile_readable))
        => /\ failed_songs = <<>>
           /\ parse_error

\* the category a line is given: the error text of the first marker it holds,
\* in the order lookup-not-found, metadata-key-error, download-backend-error;
\* <<>> for a blank line, a line without the track-URL prefix and a prefixed
\* line with no marker
CategoryOf(raw) ==
    LET line == Strip(raw)
    IN  IF line = <<>> \/ ~StartsAt(line, <<TrackPrefix>>, 1) THEN <<>>
        ELSE IF Contains(line, LookupMarker) THEN <<"LookupError: No results found">>
        ELSE IF Contains(line, KeyMarker) THEN <<"KeyError: 'webCommandMetadata'">>
        ELSE IF Contains(line, BackendMarker)
            THEN <<"AudioProviderError: YT-DLP download error">>
        ELSE <<>>

\* the categories of the lines of log that are given one, in line order
CategoriesOf(log) ==
    LET given(c) == c # <<>>
    IN  SelectSeq([i \in 1..Len(log) |-> CategoryOf(log[i])], given)

ErrorsOf(songs) == [i \in 1..Len(songs) |-> songs[i].error]

\* the lines before the first malformed line
WellFormedPrefix(log) ==
    IF \E i \in 1..Len(log) : IsMalformedLine(log[i])
        THEN SubSeq(log, 1,
                (CHOOSE i \in 1..Len(log) :
                    /\ IsMalformedLine(log[i])
                    /\ \A j \in 1..(i - 1) : ~IsMalformedLine(log[j])) - 1)
        ELSE log

----------------------------------------------------------------------------
(* Link reader: clean_url and read_links of src/utils.py, clean_url and     *)
(* read_spotify_links of main.py.  A URL is a head symbol (scheme and host, *)
(* up to the first "/") followed by path symbols.                           *)

YouTubeHeads == {"https://www.youtube.com/", "https://youtu.be/"}

SoundCloudHeads == {"https://soundcloud.com/"}

\* https?://(?:open\.)?spotify\.com/
SpotifyHeads == {"https://open.spotify.com/", "https://spotify.com/"}

\* SPOTIFY_PREFIX of main.py
SPOTIFY_PREFIX == "https://open.spotify.com/"

\* [^\s\)\]] of src/utils.py
UtilsStops == {" ", ")", "]"}

\* [^\s)] of main.py
MainStops == {" ", ")"}

\* the last index of the run of symbols outside stops that starts at i
RECURSIVE RunEnd(_, _, _)
RunEnd(line, i, stops) ==
    IF i + 1 <= Len(line) /\ line[i + 1] \notin stops
        THEN RunEnd(line, i + 1, stops)
        ELSE i

\* head/[^stops]+ matches at i
UrlAt(line, i, heads, stops) ==
    /\ i >= 1 /\ i + 1 <= Len(line)
    /\ line[i] \in heads
    /\ line[i + 1] \notin stops

\* the text of that match
UrlText(line, i, stops) == SubSeq(line, i, RunEnd(line, i + 1, stops))

\* \((head/[^stops]+)\) matches at i
MarkdownAt(line, i, heads, stops) ==
    /\ line[i] = "("
    /\ UrlAt(line, i + 1, heads, stops)
    /\ RunEnd(line, i + 2, stops) + 1 <= Len(line)
    /\ line[RunEnd(line, i + 2, stops) + 1] = ")"

\* re.search of the markdown pattern: group 1 of the leftmost match, <<>> if none
SearchMarkdown(line, heads, stops) ==
    IF \E i \in 1..Len(line) : MarkdownAt(line, i, heads, stops)
        THEN UrlText(line,
                (CHOOSE i \in 1..Len(line) :
                    /\ MarkdownAt(line, i, heads, stops)
                    /\ \A j \in 1..(i - 1) : ~MarkdownAt(line, j, heads, stops)) + 1,
                stops)
        ELSE <<>>

\* re.search of the plain pattern: group 0 of the leftmost match, <<>> if none
SearchPlain(line, heads, stops) ==
    IF \E i \in 1..Len(line) : UrlAt(line, i, heads, stops)
        THEN UrlText(line,
                CHOOSE i \in 1..Len(line) :
                    /\ UrlAt(line, i, heads, stops)
                    /\ \A j \in 1..(i - 1) : ~UrlAt(line, j, heads, stops),
                stops)
        ELSE <<>>

\* re.match of r".*\((...)\)\s*.*": the greedy .* keeps the last match
MatchLastMarkdown(line, heads, stops) ==
    IF \E i \in 1..Len(line) : MarkdownAt(line, i, heads, stops)
        THEN UrlText(line,
                (CHOOSE i \in 1..Len(line) :
                    /\ MarkdownAt(line, i, heads, stops)
                    /\ \A j \in (i + 1)..Len(line) : ~MarkdownAt(line, j, heads, stops)) + 1,
                stops)
        ELSE <<>>

\* clean_url of src/utils.py
UtilsCleanUrl(raw) ==
    IF raw # <<>> /\ Head(raw) = "#" THEN <<>>
    ELSE LET line == Strip(raw)
         IN  IF line = <<>> THEN <<>>
             ELSE IF SearchMarkdown(line, YouTubeHeads, UtilsStops) # <<>>
                 THEN SearchMarkdown(line, YouTubeHeads, UtilsStops)
             ELSE IF SearchPlain(line, YouTubeHeads, UtilsStops) # <<>>
                 THEN SearchPlain(line, YouTubeHeads, UtilsStops)
             ELSE IF SearchPlain(line, SoundCloudHeads, UtilsStops) # <<>>
                 THEN SearchPlain(line, SoundCloudHeads, UtilsStops)
             ELSE IF SearchMarkdown(line, SpotifyHeads, UtilsStops) # <<>>
                 THEN SearchMarkdown(line, SpotifyHeads, UtilsStops)
             ELSE SearchPlain(line, SpotifyHeads, UtilsStops)

\* clean_url of main.py
MainCleanUrl(raw) ==
    IF raw # <<>> /\ Head(raw) = "#" THEN <<>>
    ELSE LET line == Strip(raw)
         IN  IF line = <<>> THEN <<>>
             ELSE IF MatchLastMarkdown(line, {SPOTIFY_PREFIX}, MainStops) # <<>>
                 THEN MatchLastMarkdown(line, {SPOTIFY_PREFIX}, MainStops)
             ELSE IF Head(line) = SPOTIFY_PREFIX THEN line
             ELSE <<>>

CleanUrl(variant, raw) ==
    IF variant = "utils" THEN UtilsCleanUrl(raw) ELSE MainCleanUrl(raw)

\* the symbols whose text holds the text of a domain
SymbolsHolding(domain) ==
    CASE domain = "spotify.com" ->
            {"https://open.spotify.com/", "https://spotify.com/", "spotify.com"}
      [] domain = "soundcloud.com" -> {"https://soundcloud.com/"}
      [] domain = "youtube.com" -> {"https://www.youtube.com/"}
      [] domain = "youtu.be" -> {"https://youtu.be/"}

\* domain in url
TextIn(domain, url) == \E i \in 1..Len(url) : url[i] \in SymbolsHolding(domain)

\* the list read_links appends url to
ListOf(url) ==
    IF TextIn("spotify.com", url) THEN "spotify"
    ELSE IF TextIn("soundcloud.com", url) THEN "soundcloud"
    ELSE IF TextIn("youtube.com", url) \/ TextIn("youtu.be", url) THEN "youtube"
    ELSE "none"

RECURSIVE ExtractLinks(_, _)
\* mutant of ExtractLinks: links.append(url) without the test "if url"
ExtractLinksNoTest(variant, lines) ==
    IF lines = <<>> THEN <<>>
    ELSE <<CleanUrl(variant, Head(lines))>> \o ExtractLinks(variant, Tail(lines))

\* the urls of the non-empty results of clean_url, in line order
ExtractLinks(variant, lines) ==
    IF lines = <<>> THEN <<>>
    ELSE LET url == CleanUrl(variant, Head(lines))
         IN  (IF url # <<>> THEN <<url>> ELSE <<>>) \o ExtractLinks(variant, Tail(lines))

\* read_links of src/utils.py
ReadLinks(lines) ==
    LET links == ExtractLinks("utils", lines)
        mine(p) == SelectSeq(links, LAMBDA url : ListOf(url) = p)
    IN  [all |-> links, spotify |-> mine("spotify"),
         soundcloud |-> mine("soundcloud"), youtube |-> mine("youtube")]

\* read_spotify_links of main.py
ReadSpotifyLinks(lines) == [all |-> ExtractLinks("main", lines)]

\* URLs of the input file
UrlPool ==
    {<<"https://open.spotify.com/", "playlist/x">>,
     <<"https://soundcloud.com/", "u/sets/s">>,
     <<"https://soundcloud.com/", "u/sets/", "spotify.com">>,
     <<"https://www.youtube.com/", "playlist?list=z">>,
     <<"https://youtu.be/", "v">>}

Markdown(url) == <<"[", "t", "]", "(">> \o url \o <<")">>

\* the shapes of a line that holds one URL
LinesOf(url) ==
    {url,
     url \o <<" ">>,
     <<"Check", " ">> \o url,
     Markdown(url),
     <<"Check", " ">> \o Markdown(url) \o <<" ", "now">>,
     <<"#", " ">> \o url,
     <<"#">> \o Markdown(url),
     <<" ", "#", " ">> \o url}

\* lines that hold two URLs
TwoUrlLines ==
    LET few == {u \in UrlPool : Len(u) = 2 /\ u[1] # "https://youtu.be/"}
    IN  UNION {{Markdown(u) \o <<" ">> \o v, u \o <<" ">> \o Markdown(v),
                Markdown(u) \o <<" ">> \o Markdown(v)} : u \in few, v \in few}

\* lines that hold no URL of a provider
OtherLines ==
    {<<>>, <<" ">>, <<"#">>, <<"t">>, <<"https://example.com/", "x">>,
     <<"[", "t", "]", "(", "t", ")">>}

LinePool == (UNION {LinesOf(u) : u \in UrlPool}) \cup TwoUrlLines \cup OtherLines

\* the lines the longer files are made of
CoreLines ==
    {<<"https://open.spotify.com/", "playlist/x">>,
     <<"Check", " ">> \o Markdown(<<"https://soundcloud.com/", "u/sets/s">>) \o <<" ", "now">>,
     <<"https://soundcloud.com/", "u/sets/", "spotify.com">>,
     <<"https://www.youtube.com/", "playlist?list=z">>,
     <<"#", " ", "https://open.spotify.com/", "playlist/x">>,
     <<>>,
     <<"t">>}

InputFilePool ==
    {<<l>> : l \in LinePool} \cup UNION {[1..k -> CoreLines] : k \in 0..MaxInLines}

InitLinks ==
    /\ ReconcileIdle
    /\ RunIdle
    /\ ParseIdle
    /\ NameIdle
    /\ FileIdle
    /\ reader \in {"utils", "main"}
    /\ infile \in InputFilePool
    /\ read_out = <<>>
    /\ read_done = FALSE

\* links_by_provider = read_links(input_file, self.logger)
ReadLinksCall ==
    /\ reader = "utils"
    /\ ~read_done
    /\ read_out' = ReadLinks(infile)
    /\ read_done' = TRUE
    /\ UNCHANGED <<reader, infile>>
    /\ UNCHANGED <<reconcileVars, runVars, parseVars, nameVars, fileVars>>

\* links = read_spotify_links(input_file, logger)
ReadSpotifyLinksCall ==
    /\ reader = "main"
    /\ ~read_done
    /\ read_out' = ReadSpotifyLinks(infile)
    /\ read_done' = TRUE
    /\ UNCHANGED <<reader, infile>>
    /\ UNCHANGED <<reconcileVars, runVars, parseVars, nameVars, fileVars>>

NextLinks ==
    \/ ReadLinksCall
    \/ ReadSpotifyLinksCall

SpecLinks == InitLinks /\ [][NextLinks]_vars

----------------------------------------------------------------------------
(* Link reader claims *)

ProviderHeads == YouTubeHeads \cup SoundCloudHeads \cup SpotifyHeads

\* the URLs the line holds of the providers the reader recognizes: the three
\* providers for src/utils.py, open.spotify.com alone for main.py
UrlsIn(line) ==
    {u \in UrlPool : Contains(line, u) /\ (reader = "utils" \/ u[1] = SPOTIFY_PREFIX)}

IsComment(line) == line # <<>> /\ Head(line) = "#"

\* a comment line, a blank line or a line that holds no URL of a provider
IsInert(line) == IsComment(line) \/ Strip(line) = <<>> \/ UrlsIn(line) = {}

ReaderResult(lines) ==
    IF reader = "utils" THEN ReadLinks(lines) ELSE ReadSpotifyLinks(lines)

\* C13: comment lines, blank lines and lines without a provider URL give no
\* link: the lists are those of the file without these lines, and hold no
\* more links than the file has other lines.
C13_InertLinesYieldNothing ==
    read_done
        => LET kept == SelectSeq(infile, LAMBDA l : ~IsInert(l))
           IN  /\ read_out = ReaderResult(kept)
               /\ Len(read_out.all) <= Len(kept)

\* C13 witness: a file of a comment line that holds a URL and of a line with
\* that URL gave one link.
C13_Witness ==
    /\ read_done
    /\ Len(infile) = 2
    /\ IsComment(infile[1]) /\ UrlsIn(infile[1]) # {}
    /\ ~IsInert(infile[2])
    /\ Len(read_out.all) = 1

\* the provider whose domain is the host of the URL
HostProvider(url) ==
    IF url[1] \in YouTubeHeads THEN "youtube"
    ELSE IF url[1] \in SoundCloudHeads THEN "soundcloud"
    ELSE IF url[1] \in SpotifyHeads THEN "spotify"
    ELSE "none"

\* the URLs of the line of the first provider, in the order youtube,
\* soundcloud, spotify, that has one in the line
FirstProviderUrls(line) ==
    LET of(p) == {u \in UrlsIn(line) : HostProvider(u) = p}
    IN  IF of("youtube") # {} THEN of("youtube")
        ELSE IF of("soundcloud") # {} THEN of("soundcloud")
        ELSE of("spotify")

\* C14: a non-comment line that holds a provider URL, in markdown or bare
\* anywhere in the line, gives exactly one link, that URL unmodified, of the
\* first provider in the checked order when there are several.
C14_UrlAnywhereInLine ==
    (read_done /\ Len(infile) = 1 /\ ~IsComment(infile[1]) /\ UrlsIn(infile[1]) # {})
        => /\ Len(read_out.all) = 1
           /\ read_out.all[1] \in FirstProviderUrls(infile[1])

\* C15: the full list is the extracted links in file order, and each provider
\* list is the links of the full list whose host is that provider's domain,
\* in the same order.
C15_PartitionByHost ==
    (read_done /\ reader = "utils")
        => /\ read_out.all = ExtractLinks("utils", infile)
           /\ \A p \in {"spotify", "soundcloud", "youtube"} :
                read_out[p] = SelectSeq(read_out.all, LAMBDA url : HostProvider(url) = p)

----------------------------------------------------------------------------
(* Command line and step order claims *)

\* C16: with an argument count other than two, or an input file that is
\* missing or unreadable, the program exits with code 1 (after the usage text
\* for a wrong count) and no link is downloaded.
C16_InputErrorsExitOne ==
    (mode = "legacy" /\ (argc # 2 \/ input_state # "file"))
        => /\ downloads = <<>>
           /\ status \in {"running", "usage_error", "input_error"}
           /\ status # "running" => aggregate = 1
           /\ (status # "running" /\ argc # 2) => status = "usage_error"

StepOrder == <<"download", "fetch", "cleanup">>

\* C19: the steps of a coordinator run are, link after link, the download,
\* then the metadata fetch, then the reconcile of that link; no step of the
\* next link comes before the reconcile of the current one.
C19_StepsInOrderOneLinkAtATime ==
    mode = "coordinator"
        => \A i \in 1..Len(trace) :
            /\ trace[i].k = ((i - 1) \div 3) + 1
            /\ trace[i].ev = StepOrder[((i - 1) % 3) + 1]
            /\ trace[i].k <= Len(downloads)

\* C19 witness: a run over two links of different providers has ended after
\* the six steps.
C19_Witness ==
    /\ mode = "coordinator"
    /\ status = "done"
    /\ Len(trace) = 6
    /\ ProviderOfLink(downloads[1]) # ProviderOfLink(downloads[2])

\* the index in trace of the step ev of download invocation k, 0 if none
IndexOf(ev, k) ==
    IF \E i \in 1..Len(trace) : trace[i] = Event(ev, k)
        THEN CHOOSE i \in 1..Len(trace) : trace[i] = Event(ev, k)
        ELSE 0

\* C20: when a download left an error-log file, the file is parsed after the
\* reconcile of that link and before the download of the next link (or the end
\* of the run).
C20_ErrorLogParsedBeforeNextLink ==
    \A k \in logLeft :
        (IndexOf("download", k + 1) # 0 \/ status = "done")
            => /\ IndexOf("parse", k) # 0
               /\ IndexOf("parse", k) > IndexOf("download", k)
               /\ IndexOf("parse", k) > IndexOf("cleanup", k)
               /\ IndexOf("download", k + 1) # 0
                    => IndexOf("parse", k) < IndexOf("download", k + 1)

----------------------------------------------------------------------------
(* Reconciliation claims on the expected count and on the frame *)

\* the provider metadata the call reads holds a track count
MetadataHasCount ==
    IF provider = "spotify" THEN MetadataLoaded
    ELSE dirExists /\ infoFiles # <<>> /\ infoFiles[1] >= 0

\* that count
MetadataCount == IF provider = "spotify" THEN Len(Tracks(meta)) ELSE infoFiles[1]

\* C17: the expected count of a reconcile call is the count of the provider
\* metadata: a call reports positions as missing only when the metadata holds
\* a count, and only positions up to that count.
C17_ExpectedCountFromMetadata ==
    [][(IsCleanupStep /\ result' # <<>>)
        => /\ MetadataHasCount
           /\ \A i \in 1..Len(result') : PositionOf(result'[i]) \in 1..MetadataCount]_vars

\* C18: a reconcile call changes neither the persisted metadata nor the files
\* and directories under the output directory.
C18_ReconcileOnlyReads ==
    [][IsCleanupStep
        => UNCHANGED <<dirExists, files, meta, infoFiles, descFile, rootInfo, metaDir>>]_vars

----------------------------------------------------------------------------
(* Download claims *)

\* C21: no download invocation raises: each one returns a code, non-zero for a
\* Spotify link of no known type, and that link's metadata fetch and the later
\* links still follow.
C21_DownloadNeverRaises ==
    /\ abortedBy # "download"
    /\ status \in {"done", "aborted"} => Len(codes) = Len(downloads)
    /\ \A k \in 1..Len(codes) :
            (ProviderOfLink(downloads[k]) = "spotify" /\ ~KnownType(downloads[k])
                /\ mode = "coordinator")
                => codes[k] # 0

----------------------------------------------------------------------------
(* Container name round trip: SpotifyDownloader.fetch_metadata_image writes  *)
(* the metadata file, SpotifyDownloader.cleanup / _find_missing_in_playlist  *)
(* look it up from the name the Coordinator passes on.                       *)

\* characters of a container name
NameChars == {"a", "1", " ", "-", ":", "/"}

NamePool == UNION {[1..k -> NameChars] : k \in 1..MaxNameLen}

\* c.isalnum() or c in (' ', '-', '_')
IsSafeChar(c) == c \in {"a", "1"} \/ c \in {" ", "-", "_"}

\* "".join(c for c in out['name'] if ...).rstrip()
SafeName(name) == RStrip(SelectSeq(name, IsSafeChar))

\* metadata_dir / f"{name}.json"
MetadataFile(name) == <<".metadata/">> \o name \o <<".json">>

\* (self.output_dir / playlist_name).name: the last component of the path; a
\* name of slashes alone is the root, whose name is empty
PathName(playlist_name_) ==
    LET pieces == Split(playlist_name_, <<"/">>)
        components == SelectSeq(pieces, LAMBDA c : c # <<>>)
    IN  IF components # <<>> THEN components[Len(components)]
        ELSE IF playlist_name_ = <<>> THEN <<"output_dir">>
        ELSE <<>>

InitName ==
    /\ ReconcileIdle
    /\ RunIdle
    /\ ParseIdle
    /\ LinkIdle
    /\ FileIdle
    /\ container_name \in NamePool
    /\ json_path = <<>>
    /\ playlist_name_arg = <<>>
    /\ metadata_path = <<>>
    /\ name_step = "fetch"

\* fetch_metadata_image for a link of a known type whose provider call
\* returned: json.dump to .metadata/<safe_name>.json, return out['name']
FetchAndWrite ==
    /\ name_step = "fetch"
    /\ json_path' = MetadataFile(SafeName(container_name))
    /\ playlist_name_arg' = container_name
    /\ name_step' = "cleanup"
    /\ UNCHANGED <<container_name, metadata_path>>
    /\ UNCHANGED <<reconcileVars, runVars, parseVars, linkVars, fileVars>>

\* downloader.cleanup(playlist_name): _find_missing_in_playlist is called when
\* output_dir / playlist_name is a directory, and looks up
\* .metadata/<playlist_dir.name>.json
CleanupAndRead ==
    /\ name_step = "cleanup"
    /\ \E is_dir \in BOOLEAN :
         metadata_path' = (IF is_dir THEN MetadataFile(PathName(playlist_name_arg))
                           ELSE <<>>)
    /\ name_step' = "done"
    /\ UNCHANGED <<container_name, json_path, playlist_name_arg>>
    /\ UNCHANGED <<reconcileVars, runVars, parseVars, linkVars, fileVars>>

NextName ==
    \/ FetchAndWrite
    \/ CleanupAndRead

SpecName == InitName /\ [][NextName]_vars

\* C22: the name handed to reconcile is the sanitized container name, and the
\* metadata file reconcile looks up is the file the fetch wrote.
C22_MetadataNameRoundTrip ==
    name_step = "done"
        => /\ playlist_name_arg = SafeName(container_name)
           /\ metadata_path # <<>> => metadata_path = json_path

----------------------------------------------------------------------------
(* Error-log file names: the first statement of SpotifyDownloader.download, *)
(* SoundCloudDownloader.download and run_spotdl_for_link.  The clock counts *)
(* half seconds.                                                            *)

TicksPerSecond == 2

\* datetime.now().strftime('%Y%m%d%H%M%S'): the time cut to the whole second
Timestamp(now) == Render(now \div TicksPerSecond)

\* self.errors_dir / f"errors-{...}.txt", self.errors_dir / f"scdl-{...}.txt",
\* f"{errors_dir}/errors-{...}.txt"
ErrorsFile(by, now) ==
    CASE by = "spotify" -> <<".errors/", "errors-">> \o Timestamp(now) \o <<".txt">>
      [] by = "soundcloud" -> <<".errors/", "scdl-">> \o Timestamp(now) \o <<".txt">>
      [] by = "main" -> <<"errors/", "errors-">> \o Timestamp(now) \o <<".txt">>

InitFiles ==
    /\ ReconcileIdle
    /\ RunIdle
    /\ ParseIdle
    /\ LinkIdle
    /\ NameIdle
    /\ clock \in 0..1
    /\ errors_files = <<>>

\* time passes, during a download or between two
Tick ==
    /\ clock < MaxClock
    /\ clock' = clock + 1
    /\ UNCHANGED errors_files
    /\ UNCHANGED <<reconcileVars, runVars, parseVars, linkVars, nameVars>>

Invoke(by) ==
    /\ Len(errors_files) < MaxInvocations
    /\ errors_files' = Append(errors_files, [by |-> by, path |-> ErrorsFile(by, clock)])
    /\ UNCHANGED clock
    /\ UNCHANGED <<reconcileVars, runVars, parseVars, linkVars, nameVars>>

SpotifyDownloadStart == Invoke("spotify")

SoundCloudDownloadStart == Invoke("soundcloud")

RunSpotdlStart == Invoke("main")

NextFiles ==
    \/ Tick
    \/ SpotifyDownloadStart
    \/ SoundCloudDownloadStart
    \/ RunSpotdlStart

SpecFiles == InitFiles /\ [][NextFiles]_vars

\* C23: no two download invocations use the same error-log file path.
C23_OneErrorLogPerInvocation ==
    \A i, j \in 1..Len(errors_files) :
        i # j => errors_files[i].path # errors_files[j].path

====
